---- MODULE Spec2Model ----
\* Model of DSCallGraph (lib/DSA/DSCallGraph.cpp): call-graph ingestion,
\* Tarjan SCC construction over the simple callee map, collapsing of the
\* maps onto class leaders, and derivation of the root set.
\*
\* Procedures (llvm::Function pointers) are the integers 1..NumProcs; the
\* std::map / std::set containers iterate in pointer order, which is the
\* ascending order of these integers.  Every assignment of bodies and
\* every edge set is enumerated, so every relative address order of
\* callers, callees, bodies and declarations occurs.
EXTENDS Integers, FiniteSets, Sequences, TLC

\* ---- bounds -------------------------------------------------------------
NumProcs == 3
NumSites == 3
MaxEdges == 3

Procs == 1 .. NumProcs
Sites == 1 .. NumSites
\* the null llvm::Function pointer passed for an unresolved call site
None == 0

VARIABLES
  isDeclaration,   \* the host's llvm::Function::isDeclaration() answers, as the
                   \* search of buildSCCs reads them (empty until then)
  SimpleCallees,   \* std::map<const Function ptr, FuncSet>
  ActualCallees,   \* std::map<CallSite, FuncSet>
  SCCs,            \* llvm::EquivalenceClasses<const Function ptr>: member -> leader
  knownRoots,      \* svset<const Function ptr>
  pc,              \* "ingest", "built", "rooted" or "fatal" (an assertion failed)
  failure,         \* text of the assertion that failed, "" if none
  lastOp,          \* the call that produced this state
  preSimple,       \* SimpleCallees as buildSCCs found it
  preActual,       \* ActualCallees as buildSCCs found it
  search           \* where the search of buildSCCs ended: its Stack, its ValMap
                   \* and the stack as each top-level tarjan_rec call left it

vars == <<isDeclaration, SimpleCallees, ActualCallees, SCCs, knownRoots, pc,
          failure, lastOp, preSimple, preActual, search>>

\* the empty std::map
EmptyMap == [x \in {} |-> {}]

\* ---- container helpers --------------------------------------------------
\* faulty variant: the entry is assigned an empty set instead of looked up
MapTouchReset(m, k) == [x \in DOMAIN m \cup {k} |-> IF x = k THEN {} ELSE m[x]]

\* std::map::operator[] on a map of sets: default-constructs an empty set
MapTouch(m, k) ==
  IF k \in DOMAIN m THEN m
  ELSE [x \in DOMAIN m \cup {k} |-> IF x = k THEN {} ELSE m[x]]

\* m[k].insert(first, last)
MapInsertAll(m, k, vs) ==
  LET t == MapTouch(m, k)
  IN [t EXCEPT ![k] = @ \cup vs]

\* std::map::erase(iterator)
MapErase(m, k) == [x \in DOMAIN m \ {k} |-> m[x]]

\* the one element of a singleton set; { e(x) : x \in {v} } evaluates v once
Only(S) == CHOOSE x \in S : TRUE

\* iteration order of std::set / std::map keys: ascending
RECURSIVE SortedSeq(_)
SortedSeq(S) ==
  IF S = {} THEN <<>>
  ELSE LET m == CHOOSE x \in S : \A y \in S : x <= y
       IN <<m>> \o SortedSeq(S \ {m})

\* CS.getInstruction()->getParent()->getParent(): the enclosing procedure
getCaller(CS) == ((CS - 1) % NumProcs) + 1

\* number of (caller, callee) pairs held by a simple callee map
RECURSIVE NumEdgesSeq(_, _)
NumEdgesSeq(m, ks) ==
  IF ks = <<>> THEN 0
  ELSE Cardinality(m[Head(ks)]) + NumEdgesSeq(m, Tail(ks))
NumEdges(m) == NumEdgesSeq(m, SortedSeq(DOMAIN m))

\* ---- accessors of the call graph -----------------------------------------
\* flat_key_begin() .. flat_key_end()
flat_keys == DOMAIN SimpleCallees

\* flat_callee_begin(F) .. flat_callee_end(F): empty for a procedure without entry
flat_callees(F) ==
  IF F \in DOMAIN SimpleCallees THEN SimpleCallees[F] ELSE {}

\* callee_begin(CS) .. callee_end(CS): empty for a site without entry
callees(CS) ==
  IF CS \in DOMAIN ActualCallees THEN ActualCallees[CS] ELSE {}

\* ---- llvm::EquivalenceClasses -------------------------------------------
\* insert(V): a new singleton class unless V is already a member
ECinsert(ec, V) ==
  IF V \in DOMAIN ec THEN ec
  ELSE [x \in DOMAIN ec \cup {V} |-> IF x = V THEN V ELSE ec[x]]

\* getLeaderValue(V); EquivalenceClasses asserts that V is a member
\* ("Value is not in the set!"), see Classified
getLeaderValue(ec, V) == ec[V]

\* unionSets(V1, V2): the leader of V1 stays the leader of the merged class
unionSets(ec, V1, V2) ==
  LET e  == ECinsert(ECinsert(ec, V1), V2)
      L1 == e[V1]
      L2 == e[V2]
  IN IF L1 = L2 THEN e
     ELSE [x \in DOMAIN e |-> IF e[x] = L2 THEN L1 ELSE e[x]]

\* ---- SCC construction (tarjan_rec) --------------------------------------
\* the search state threaded through the recursion: the visitation stack,
\* the discovery counter, the discovery indices, the classes built so far,
\* the text of a failed assertion ("" while none has failed), and the
\* isDeclaration() facts of the procedures; returns collects the stack as
\* each top-level call of tarjan_rec left it
TarjanInit(decl) ==
  [Stack |-> <<>>, NextID |-> 1, ValMap |-> [x \in {} |-> 0],
   SCCs |-> [x \in {} |-> 0], err |-> "", decl |-> decl, returns |-> <<>>]

\* faulty variants of the stack test: a visited callee always, or never, taken
\* to be on the stack
OnStackAlways(F, Stack) == TRUE
OnStackNever(F, Stack) == FALSE

\* std::find(Stack.begin(), Stack.end(), F) != Stack.end()
OnStack(F, Stack) == \E i \in 1 .. Len(Stack) : Stack[i] = F

\* faulty variant: the declaration test dropped
HasBodyAlways(decl, F) == TRUE

\* !F->isDeclaration()
HasBody(decl, F) == ~decl[F]

\* ValMap[F] = Min; Stack.push_back(F)   (NextID++ included)
Discover(st, F) ==
  [st EXCEPT !.NextID = @ + 1,
             !.ValMap = [x \in DOMAIN @ \cup {F} |-> IF x = F THEN st.NextID ELSE @[x]],
             !.Stack = Append(@, F)]

\* faulty variant: the singleton is popped but not registered as a class
SingleNodeNoInsert(st, F) ==
  [st EXCEPT !.Stack = SubSeq(@, 1, Len(@) - 1)]

\* single node case: Stack.pop_back(); SCCs.insert(F)
SingleNode(st, F) ==
  [st EXCEPT !.Stack = SubSeq(@, 1, Len(@) - 1),
             !.SCCs = ECinsert(@, F)]

\* the do-while: the procedures popped from the top of the stack down to F
PopTo(Stack, F) ==
  LET i == CHOOSE j \in 1 .. Len(Stack) : Stack[j] = F
  IN [k \in 1 .. (Len(Stack) - i + 1) |-> Stack[Len(Stack) - k + 1]]

\* faulty variants: the last popped procedure with a body is kept (the !Leader
\* test dropped), or the first popped procedure is taken whatever it is
PickLeaderLast(decl, microSCC) ==
  IF \E k \in 1 .. Len(microSCC) : HasBody(decl, microSCC[k])
  THEN microSCC[CHOOSE k \in 1 .. Len(microSCC) :
                  /\ HasBody(decl, microSCC[k])
                  /\ \A j \in (k + 1) .. Len(microSCC) : ~HasBody(decl, microSCC[j])]
  ELSE None
PickLeaderFirstPopped(decl, microSCC) == microSCC[1]

\* if (!Leader && !NF->isDeclaration()) Leader = NF: first popped with a body
PickLeader(decl, microSCC) ==
  IF \E k \in 1 .. Len(microSCC) : HasBody(decl, microSCC[k])
  THEN microSCC[CHOOSE k \in 1 .. Len(microSCC) :
                  /\ HasBody(decl, microSCC[k])
                  /\ \A j \in 1 .. (k - 1) : ~HasBody(decl, microSCC[j])]
  ELSE None

\* faulty variant: the arguments of unionSets exchanged
UnionStepSwapped(ec, Leader, M) ==
  LET e1   == ECinsert(ec, M)
      Temp == getLeaderValue(e1, M)
      e2   == unionSets(e1, Temp, Leader)
  IN [ec |-> e2,
      ok |-> getLeaderValue(e2, Leader) = Leader /\ getLeaderValue(e2, Temp) = Leader]

\* one iteration of the union loop, with its two assertions
UnionStep(ec, Leader, M) ==
  LET e1   == ECinsert(ec, M)
      Temp == getLeaderValue(e1, M)
      e2   == unionSets(e1, Leader, Temp)
  IN [ec |-> e2,
      ok |-> getLeaderValue(e2, Leader) = Leader /\ getLeaderValue(e2, Temp) = Leader]

RECURSIVE UnionLoop(_, _, _)
UnionLoop(ec, Leader, todo) ==
  IF todo = <<>> THEN [ec |-> ec, ok |-> TRUE]
  ELSE LET r == UnionStep(ec, Leader, Head(todo))
       IN IF r.ok THEN UnionLoop(r.ec, Leader, Tail(todo)) ELSE r

\* multi-node case: pop the component, pick the leader, union the members
CloseSCC(st, F) ==
  LET microSCC == PopTo(st.Stack, F)
      rest     == SubSeq(st.Stack, 1, Len(st.Stack) - Len(microSCC))
      Leader0  == PickLeader(st.decl, microSCC)
  IN IF Leader0 = None
     THEN [st EXCEPT !.Stack = rest, !.err = "No Leader?"]
     ELSE LET e1     == ECinsert(st.SCCs, Leader0)
              Leader == getLeaderValue(e1, Leader0)
          IN IF ~HasBody(st.decl, Leader)
             THEN [st EXCEPT !.Stack = rest, !.SCCs = e1, !.err = "extern leader"]
             ELSE LET u == UnionLoop(e1, Leader, microSCC)
                  IN [st EXCEPT !.Stack = rest, !.SCCs = u.ec,
                                !.err = IF u.ok THEN "" ELSE "SCC construction wrong"]

RECURSIVE tarjan_rec(_, _), tarjan_callees(_, _, _)

\* the loop over flat_callee_begin(F) .. flat_callee_end(F); todo is what is
\* left of it.  Yields the search state and Min.
tarjan_callees(todo, Min, st) ==
  IF todo = <<>> \/ st.err # "" THEN [st |-> st, Min |-> Min]
  ELSE LET c == Head(todo)
       IN Only({tarjan_callees(Tail(todo), IF r.ret < Min THEN r.ret ELSE Min, r.st) :
                r \in {IF c \notin DOMAIN st.ValMap
                       THEN tarjan_rec(c, st)
                       ELSE IF OnStack(c, st.Stack)
                            THEN [st |-> st, ret |-> st.ValMap[c]]
                            ELSE [st |-> st, ret |-> Min]}})

\* yields the search state and the returned low-link
tarjan_rec(F, st) ==
  IF F \in DOMAIN st.ValMap
  THEN [st |-> [st EXCEPT !.err = "Shouldn't revisit functions!"], ret |-> 0]
  ELSE LET MyID == st.NextID
       IN Only({IF lp.st.err # "" THEN [st |-> lp.st, ret |-> lp.Min]
                ELSE IF lp.st.ValMap[F] # MyID
                THEN [st |-> [lp.st EXCEPT !.err = "SCC construction assumption wrong!"],
                      ret |-> lp.Min]
                ELSE IF lp.Min # MyID THEN [st |-> lp.st, ret |-> lp.Min]
                ELSE IF F = lp.st.Stack[Len(lp.st.Stack)]
                THEN [st |-> SingleNode(lp.st, F), ret |-> MyID]
                ELSE [st |-> CloseSCC(lp.st, F), ret |-> MyID] :
                lp \in {tarjan_callees(SortedSeq(flat_callees(F)), MyID, Discover(st, F))}})

\* the driver loop of buildSCCs over flat_key_begin() .. flat_key_end()
RECURSIVE tarjan_keys(_, _)
tarjan_keys(todo, st) ==
  IF todo = <<>> \/ st.err # "" THEN st
  ELSE IF Head(todo) \in DOMAIN st.ValMap THEN tarjan_keys(Tail(todo), st)
  ELSE Only({tarjan_keys(Tail(todo), [r.st EXCEPT !.returns = Append(@, r.st.Stack)]) :
             r \in {tarjan_rec(Head(todo), st)}})

\* ---- collapsing (removeECs, removeECFunctions) ---------------------------
\* faulty variant: the set is left as it is
removeECsKeep(F, ECs) == F

\* removeECs(F, ECs): every member replaced by its class leader
removeECs(F, ECs) == {getLeaderValue(ECs, x) : x \in F}

\* faulty variant: the entry of a non-leader is erased without being merged
RECURSIVE MergeCallersDrop(_, _, _)
MergeCallersDrop(m, ECs, todo) ==
  IF todo = <<>> THEN m
  ELSE LET k == Head(todo)
       IN IF getLeaderValue(ECs, k) = k THEN MergeCallersDrop(m, ECs, Tail(todo))
          ELSE MergeCallersDrop(MapErase(m, k), ECs, Tail(todo))

\* first loop: every entry of a non-leader is merged into its leader's entry
\* and erased
RECURSIVE MergeCallers(_, _, _)
MergeCallers(m, ECs, todo) ==
  IF todo = <<>> THEN m
  ELSE LET k      == Head(todo)
           Leader == getLeaderValue(ECs, k)
       IN IF Leader = k THEN MergeCallers(m, ECs, Tail(todo))
          ELSE MergeCallers(MapErase(MapInsertAll(m, Leader, m[k]), k), ECs, Tail(todo))

\* faulty variants: the self loop not erased, or erased before the callees
\* are replaced by their leaders
RewriteCalleesKeepSelf(F, key, ECs) == removeECs(F, ECs)
RewriteCalleesEraseFirst(F, key, ECs) == removeECs(F \ {key}, ECs)

\* second loop body: removeECs(ii->second, SCCs); ii->second.erase(ii->first)
RewriteCallees(F, key, ECs) == removeECs(F, ECs) \ {key}

\* the lookups of removeECFunctions and removeECs are getLeaderValue calls on
\* every key, every simple callee and every actual callee: all must be members
Classified(m, a, ECs) ==
  /\ \A k \in DOMAIN m : k \in DOMAIN ECs /\ m[k] \subseteq DOMAIN ECs
  /\ \A CS \in DOMAIN a : a[CS] \subseteq DOMAIN ECs

\* removeECFunctions on the simple callee map
CollapseSimple(m, ECs) ==
  Only({[k \in DOMAIN merged |-> RewriteCallees(merged[k], k, ECs)] :
        merged \in {MergeCallers(m, ECs, SortedSeq(DOMAIN m))}})

\* faulty variant: the entries of sites whose enclosing caller is not a leader
\* are dropped, as the simple entries of non-leaders are
CollapseActualLeaderSites(a, ECs) ==
  [CS \in {x \in DOMAIN a : getLeaderValue(ECs, getCaller(x)) = getCaller(x)} |->
     removeECs(a[CS], ECs)]

\* removeECFunctions on the actual callee map
CollapseActual(a, ECs) == [CS \in DOMAIN a |-> removeECs(a[CS], ECs)]

\* ---- roots (buildRoots) ---------------------------------------------------
\* faulty variants: the callees not subtracted, or the difference reversed
RootsOfCallers(m) == DOMAIN m
RootsOfSwapped(m) == (UNION {m[k] : k \in DOMAIN m}) \ (DOMAIN m)

\* knownCallers minus knownCallees
RootsOf(m) == (DOMAIN m) \ UNION {m[k] : k \in DOMAIN m}

\* ---- the operations -------------------------------------------------------
Init ==
  /\ isDeclaration = [x \in {} |-> FALSE]
  /\ SimpleCallees = EmptyMap
  /\ ActualCallees = EmptyMap
  /\ SCCs = [x \in {} |-> 0]
  /\ knownRoots = {}
  /\ pc = "ingest"
  /\ failure = ""
  /\ lastOp = <<"new">>
  /\ preSimple = EmptyMap
  /\ preActual = EmptyMap
  /\ search = [Stack |-> <<>>, ValMap |-> [x \in {} |-> 0], returns |-> <<>>]

\* faulty variant: the callee is not added to the caller's entry
InsertSimpleTouchOnly(m, caller, F) == MapTouch(m, caller)

\* what insert does to the simple callee map: the caller's entry is touched
\* first, the callee is added to it when there is one
InsertSimple(m, caller, F) ==
  IF F # None THEN MapInsertAll(MapTouch(m, caller), caller, {F})
  ELSE MapTouch(m, caller)

\* faulty variant: the site receives what the caller's simple entry held
\* before this call instead of the callee
InsertActualFromSimple(a, CS, F) ==
  IF F # None THEN MapInsertAll(a, CS, flat_callees(getCaller(CS))) ELSE a

\* faulty variant: the site's entry is touched before the callee is tested
InsertActualTouch(a, CS, F) ==
  IF F # None THEN MapInsertAll(a, CS, {F}) ELSE MapTouch(a, CS)

\* what insert does to the actual callee map: nothing without a callee
InsertActual(a, CS, F) ==
  IF F # None THEN MapInsertAll(a, CS, {F}) ELSE a

\* DSCallGraph::insert(CS, F); F = None is the unresolved call site
insert(CS, F) ==
  /\ pc = "ingest"
  /\ \/ F = None
     \/ F \in flat_callees(getCaller(CS))
     \/ NumEdges(SimpleCallees) < MaxEdges
  /\ SimpleCallees' = InsertSimple(SimpleCallees, getCaller(CS), F)
  /\ ActualCallees' = InsertActual(ActualCallees, CS, F)
  /\ lastOp' = <<"insert", CS, F>>
  /\ UNCHANGED <<isDeclaration, SCCs, knownRoots, pc, failure, preSimple, preActual,
                 search>>

\* DSCallGraph::insureEntry(F)
insureEntry(F) ==
  /\ pc = "ingest"
  /\ SimpleCallees' = MapTouch(SimpleCallees, F)
  /\ lastOp' = <<"insureEntry", F>>
  /\ UNCHANGED <<isDeclaration, ActualCallees, SCCs, knownRoots, pc, failure,
                 preSimple, preActual, search>>

\* DSCallGraph::buildSCCs(): the search over all keys, then removeECFunctions;
\* a failed assertion aborts before the maps are rewritten.  decl is what
\* isDeclaration() answers for each procedure.
buildSCCs(decl) ==
  /\ pc = "ingest"
  /\ isDeclaration' = decl
  /\ \E st \in {tarjan_keys(SortedSeq(flat_keys), TarjanInit(decl))} :
        /\ SCCs' = st.SCCs
        /\ search' = [Stack |-> st.Stack, ValMap |-> st.ValMap, returns |-> st.returns]
        /\ IF st.err # ""
           THEN /\ pc' = "fatal"
                /\ failure' = st.err
                /\ UNCHANGED <<SimpleCallees, ActualCallees>>
           ELSE IF ~Classified(SimpleCallees, ActualCallees, st.SCCs)
           THEN /\ pc' = "fatal"
                /\ failure' = "Value is not in the set!"
                /\ UNCHANGED <<SimpleCallees, ActualCallees>>
           ELSE /\ pc' = "built"
                /\ failure' = ""
                /\ SimpleCallees' = CollapseSimple(SimpleCallees, st.SCCs)
                /\ ActualCallees' = CollapseActual(ActualCallees, st.SCCs)
  /\ preSimple' = SimpleCallees
  /\ preActual' = ActualCallees
  /\ lastOp' = <<"buildSCCs">>
  /\ UNCHANGED knownRoots

\* DSCallGraph::buildRoots()
buildRoots ==
  /\ pc = "built"
  /\ knownRoots' = RootsOf(SimpleCallees)
  /\ pc' = "rooted"
  /\ lastOp' = <<"buildRoots">>
  /\ UNCHANGED <<isDeclaration, SimpleCallees, ActualCallees, SCCs, failure,
                 preSimple, preActual, search>>

Next ==
  \/ \E CS \in Sites, F \in Procs \cup {None} : insert(CS, F)
  \/ \E F \in Procs : insureEntry(F)
  \/ \E decl \in [Procs -> BOOLEAN] : buildSCCs(decl)
  \/ buildRoots

Spec == Init /\ [][Next]_vars

\* ---- vocabulary of the properties ------------------------------------------
\* buildSCCs has returned / has been called
Completed == pc \in {"built", "rooted"}
AfterBuild == pc \in {"built", "rooted", "fatal"}

\* callees of x in a simple callee map
Succ(m, x) == IF x \in DOMAIN m THEN m[x] ELSE {}

RECURSIVE Closure(_, _)
Closure(m, S) ==
  LET n == S \cup UNION {Succ(m, x) : x \in S}
  IN IF n = S THEN S ELSE Closure(m, n)

\* what x reaches by one or more edges of m
ReachPlus(m, x) == Closure(m, Succ(m, x))

\* x reaches y by zero or more edges of m
Reaches(m, x, y) == x = y \/ y \in ReachPlus(m, x)

\* x and y lie on a common cycle, or are the same procedure
Mutual(m, x, y) == Reaches(m, x, y) /\ Reaches(m, y, x)

\* every procedure registered by insert or insureEntry before buildSCCs
Registered == (DOMAIN preSimple) \cup UNION {preSimple[k] : k \in DOMAIN preSimple}

\* leader-of, None for a procedure that is in no class
LeaderOf(p) == IF p \in DOMAIN SCCs THEN SCCs[p] ELSE None
Leaders == {p \in DOMAIN SCCs : SCCs[p] = p}
ClassOf(L) == {p \in DOMAIN SCCs : SCCs[p] = L}

\* every group of two or more mutually reachable procedures has a body
WellFormed ==
  \A p \in Registered, q \in Registered :
    (p # q /\ Mutual(preSimple, p, q)) =>
      \E r \in Registered : Mutual(preSimple, p, r) /\ ~isDeclaration[r]

\* ---- C1 ---------------------------------------------------------------------
\* C1: when every group of two or more mutually reachable procedures has a
\* member with a body, buildSCCs completes and two registered procedures have
\* the same class leader exactly if each reaches the other along the simple
\* callee edges recorded before buildSCCs: the classes are the maximal SCCs.
C1_ClassesAreSCCs ==
  (AfterBuild /\ WellFormed) =>
    /\ pc # "fatal"
    /\ \A p \in Registered, q \in Registered :
         /\ LeaderOf(p) # None
         /\ (LeaderOf(p) = LeaderOf(q)) <=> Mutual(preSimple, p, q)

\* a class of two next to a procedure that one of them reaches one way only
C1_Witness ==
  /\ Completed
  /\ \E p \in Registered, q \in Registered, r \in Registered :
       /\ p # q /\ LeaderOf(p) = LeaderOf(q)
       /\ r \in ReachPlus(preSimple, p)
       /\ LeaderOf(r) # LeaderOf(p)

\* ---- C2 ---------------------------------------------------------------------
\* C2: unless the search stops on the "No Leader?" assertion, buildSCCs
\* completes and every registered procedure, callee-only procedures and
\* self-calling singletons included, is a member of exactly one class.
C2_PartitionTotal ==
  (AfterBuild /\ failure # "No Leader?") =>
    /\ pc # "fatal"
    /\ \A p \in Registered :
         /\ p \in DOMAIN SCCs
         /\ Cardinality({L \in Leaders : p \in ClassOf(L)}) = 1

\* a callee-only procedure and a self-calling singleton, both classified
C2_Witness ==
  /\ Completed
  /\ \E p \in Registered : p \notin DOMAIN preSimple /\ p \in DOMAIN SCCs
  /\ \E f \in DOMAIN preSimple : f \in preSimple[f] /\ ClassOf(LeaderOf(f)) = {f}

\* ---- C3 ---------------------------------------------------------------------
\* C3: after buildSCCs no leader is reachable from itself by one or more
\* edges of the simple callee map.
C3_Acyclic ==
  Completed => \A L \in Leaders : L \notin ReachPlus(SimpleCallees, L)

\* a cycle was recorded and an edge between two leaders is left
C3_Witness ==
  /\ Completed
  /\ \E p \in Registered : p \in ReachPlus(preSimple, p)
  /\ \E L \in Leaders, M \in Leaders : L # M /\ M \in Succ(SimpleCallees, L)

\* ---- C4 ---------------------------------------------------------------------
\* C4: after buildSCCs the leader of every class of two or more members has
\* a body.
C4_LeaderHasBody ==
  Completed =>
    \A L \in Leaders : Cardinality(ClassOf(L)) >= 2 => ~isDeclaration[L]

\* a class of two or more with a declaration-only member
C4_Witness ==
  /\ Completed
  /\ \E L \in Leaders :
       /\ Cardinality(ClassOf(L)) >= 2
       /\ \E p \in ClassOf(L) : isDeclaration[p]

\* ---- C5 ---------------------------------------------------------------------
\* C5: after ingest, buildSCCs, buildRoots a leader is in the root set
\* exactly if no callee set of the simple callee map contains it.
C5_RootCorrect ==
  pc = "rooted" =>
    \A L \in Leaders :
      (L \in knownRoots) <=> (\A k \in DOMAIN SimpleCallees : L \notin SimpleCallees[k])

\* a leader that is a root and a leader that is called
C5_Witness ==
  /\ pc = "rooted"
  /\ \E L \in Leaders : L \in knownRoots
  /\ \E L \in Leaders : \E k \in DOMAIN SimpleCallees : L \in SimpleCallees[k]

\* ---- C6 ---------------------------------------------------------------------
\* f is a class of its own and the simple callee map held f -> f
SelfCallingSingleton(f) ==
  /\ f \in DOMAIN preSimple
  /\ f \in preSimple[f]
  /\ ClassOf(LeaderOf(f)) = {f}

C7_NoMergedSelfLoop ==
  Completed =>
    \A L \in Leaders :
      Cardinality(ClassOf(L)) >= 2 =>
        L \in DOMAIN SimpleCallees /\ L \notin SimpleCallees[L]

\* a class of two or more whose members called each other
C7_Witness ==
  /\ Completed
  /\ \E L \in Leaders : \E p \in ClassOf(L) :
       p # L /\ L \in Succ(preSimple, p) /\ p \in ReachPlus(preSimple, L)

\* ---- C8 ---------------------------------------------------------------------
\* C8 as stated: during ingestion every procedure passed as enclosing caller
\* or as resolved callee is a key of the simple callee map.
C8_TouchOnInsert ==
  pc = "ingest" =>
    \A k \in DOMAIN SimpleCallees :
      \A c \in SimpleCallees[k] : c \in DOMAIN SimpleCallees

\* ---- C9 ---------------------------------------------------------------------
\* C9 as stated: after insert(site, none) the actual callee map has an entry
\* for the site with an empty target set.
C9_EmptyEntryCreated ==
  \A CS \in Sites :
    lastOp = <<"insert", CS, None>> =>
      CS \in DOMAIN ActualCallees /\ ActualCallees[CS] = {}

\* C9 amended: after insert(site, none) the actual callee map holds no entry
\* with an empty target set for the site: the site has no entry at all unless
\* resolved callees were recorded for it, and its target set reads as empty
\* only through the accessors.
C9_NoEntryCreated ==
  \A CS \in Sites :
    lastOp = <<"insert", CS, None>> =>
      /\ ~(CS \in DOMAIN ActualCallees /\ ActualCallees[CS] = {})
      /\ (CS \notin DOMAIN ActualCallees => callees(CS) = {})
      /\ getCaller(CS) \in DOMAIN SimpleCallees

\* insert(site, none) has just run for a site without resolved callee
C9_Witness ==
  \E CS \in Sites :
    lastOp = <<"insert", CS, None>> /\ CS \notin DOMAIN ActualCallees

\* ---- C10 --------------------------------------------------------------------
\* Scenario B: a has a body, b is declaration-only, a -> b and b -> a are the
\* only registrations
ScenarioB(a, b) ==
  /\ a # b
  /\ DOMAIN preSimple = {a, b}
  /\ preSimple[a] = {b}
  /\ preSimple[b] = {a}
  /\ ~isDeclaration[a]
  /\ isDeclaration[b]

\* C10 as stated: Scenario B ends with one class led by a and no root.
C10_ScenarioB_NoRoot ==
  \A a \in Procs, b \in Procs :
    (pc = "rooted" /\ ScenarioB(a, b)) =>
      /\ DOMAIN SCCs = {a, b} /\ SCCs[a] = a /\ SCCs[b] = a
      /\ knownRoots = {}

\* C10 amended: Scenario B ends with one class led by a, the single entry
\* a -> {} in the simple callee map, and the root set {a}.
C10_ScenarioB_RootA ==
  \A a \in Procs, b \in Procs :
    (pc = "rooted" /\ ScenarioB(a, b)) =>
      /\ DOMAIN SCCs = {a, b} /\ SCCs[a] = a /\ SCCs[b] = a
      /\ DOMAIN SimpleCallees = {a} /\ SimpleCallees[a] = {}
      /\ knownRoots = {a}

\* Scenario B has run to the end, the declaration b visited before a
C10_Witness ==
  /\ pc = "rooted"
  /\ \E a \in Procs, b \in Procs : ScenarioB(a, b) /\ b < a

\* ---- C11 --------------------------------------------------------------------
\* C11: an insert that repeats the call before it, with the same site and the
\* same callee or none, changes neither the simple nor the actual callee map.
C11_InsertIdempotent ==
  [][\A CS \in Sites, F \in Procs \cup {None} :
       (lastOp = <<"insert", CS, F>> /\ insert(CS, F)) =>
         (SimpleCallees' = SimpleCallees /\ ActualCallees' = ActualCallees)]_vars

\* insert has recorded a resolved edge for a caller that already had another
\* callee; repeating the call leaves this very state
C11_Witness ==
  \E CS \in Sites, F \in Procs :
    /\ lastOp = <<"insert", CS, F>>
    /\ F \in callees(CS)
    /\ flat_callees(getCaller(CS)) # {F}
    /\ ENABLED insert(CS, F)

\* ---- C12 --------------------------------------------------------------------
\* the simple callee map gains at most the key k, with an empty callee set;
\* every entry it had is unchanged
OnlyKeyAdded(k) ==
  /\ DOMAIN SimpleCallees' = DOMAIN SimpleCallees \cup {k}
  /\ \A x \in DOMAIN SimpleCallees : SimpleCallees'[x] = SimpleCallees[x]
  /\ k \notin DOMAIN SimpleCallees => SimpleCallees'[k] = {}

\* C12: insureEntry(p) and insert for a site without resolved callee change
\* the simple callee map only by adding p, respectively the enclosing
\* caller, as a key with an empty callee set when it was absent.
C12_RegistrationAddsNoEdge ==
  [][/\ \A p \in Procs : insureEntry(p) => OnlyKeyAdded(p)
     /\ \A CS \in Sites : insert(CS, None) => OnlyKeyAdded(getCaller(CS))]_vars

\* insureEntry has run for a procedure while another key has callees
C12_Witness ==
  \E p \in Procs :
    /\ lastOp = <<"insureEntry", p>>
    /\ p \in DOMAIN SimpleCallees
    /\ \E k \in DOMAIN SimpleCallees : k # p /\ SimpleCallees[k] # {}

\* ---- C13 --------------------------------------------------------------------
\* C13: after buildSCCs every key of the simple callee map, every member of
\* every simple callee set and every member of every actual target set is
\* its own class leader.
C13_LeaderOnlyMaps ==
  Completed =>
    /\ \A k \in DOMAIN SimpleCallees : k \in Leaders /\ SimpleCallees[k] \subseteq Leaders
    /\ \A CS \in DOMAIN ActualCallees : ActualCallees[CS] \subseteq Leaders

\* a non-leader was a key, a simple callee and an actual target
C13_Witness ==
  /\ Completed
  /\ \E p \in Registered :
       /\ LeaderOf(p) # p
       /\ p \in DOMAIN preSimple
       /\ \E k \in DOMAIN preSimple : LeaderOf(k) # LeaderOf(p) /\ p \in preSimple[k]
       /\ \E CS \in DOMAIN preActual : p \in preActual[CS]

\* ---- C14 --------------------------------------------------------------------
\* C14: the leader of a class of two or more is its member with a body that
\* has the largest discovery index (the first such member in pop order), and
\* every member of the component is in the class of that leader.
C14_LeaderByPopOrder ==
  Completed =>
    \A L \in Leaders :
      Cardinality(ClassOf(L)) >= 2 =>
        /\ ~isDeclaration[L]
        /\ \A p \in ClassOf(L) :
             ~isDeclaration[p] => search.ValMap[p] <= search.ValMap[L]
        /\ \A p \in Registered : Mutual(preSimple, p, L) => LeaderOf(p) = L

\* a class with two members that have a body
C14_Witness ==
  /\ Completed
  /\ \E L \in Leaders : \E p \in ClassOf(L) :
       p # L /\ ~isDeclaration[p] /\ ~isDeclaration[L]

\* ---- C15 --------------------------------------------------------------------
\* the recorded simple edges hold a component of two or more procedures that
\* are all declaration-only
BodylessCycle ==
  \E p \in Registered, q \in Registered :
    /\ p # q
    /\ Mutual(preSimple, p, q)
    /\ \A r \in Registered : Mutual(preSimple, p, r) => isDeclaration[r]

\* C15: with such a component buildSCCs ends on the "No Leader?" assertion
\* and the simple and actual callee maps are not collapsed.
C15_FatalOnBodylessCycle ==
  (AfterBuild /\ BodylessCycle) =>
    /\ pc = "fatal"
    /\ failure = "No Leader?"
    /\ SimpleCallees = preSimple
    /\ ActualCallees = preActual

\* buildSCCs has met a body-less cycle next to a procedure with a body
C15_Witness ==
  /\ AfterBuild
  /\ BodylessCycle
  /\ \E r \in Registered : ~isDeclaration[r]

\* ---- C16 --------------------------------------------------------------------
\* C16: buildSCCs leaves the keys of the actual callee map as they were and
\* replaces every target by its leader.
C16_SitesNeverMerged ==
  Completed =>
    /\ DOMAIN ActualCallees = DOMAIN preActual
    /\ \A CS \in DOMAIN preActual :
         ActualCallees[CS] = {LeaderOf(t) : t \in preActual[CS]}

\* two sites with entries whose enclosing callers were merged into one class
C16_Witness ==
  /\ Completed
  /\ \E CS \in DOMAIN ActualCallees, DS \in DOMAIN ActualCallees :
       /\ CS # DS
       /\ LeaderOf(getCaller(CS)) = getCaller(DS)
       /\ LeaderOf(getCaller(CS)) # getCaller(CS)

\* ---- C17 --------------------------------------------------------------------
\* C17: after buildSCCs a leader M is a simple callee of another leader L
\* exactly if some edge recorded before buildSCCs led from the class of L to
\* the class of M.
C17_CondensationExact ==
  Completed =>
    \A L \in Leaders, M \in Leaders :
      L # M =>
        ((M \in Succ(SimpleCallees, L)) <=>
           (\E u \in DOMAIN preSimple : \E v \in preSimple[u] :
              LeaderOf(u) = L /\ LeaderOf(v) = M))

\* the only edge between two classes left from a non-leader
C17_Witness ==
  /\ Completed
  /\ \E u \in DOMAIN preSimple : \E v \in preSimple[u] :
       /\ LeaderOf(u) # u
       /\ LeaderOf(v) # LeaderOf(u)
       /\ v \notin Succ(preSimple, LeaderOf(u))
       /\ LeaderOf(v) \in Succ(SimpleCallees, LeaderOf(u))

\* ---- C18 --------------------------------------------------------------------
\* C18: after ingest, buildSCCs, buildRoots every leader is a root or is
\* reachable from a root along simple callee edges, and the root set is not
\* empty when a procedure was registered.
C18_RootsCover ==
  pc = "rooted" =>
    /\ \A L \in Leaders :
         L \in knownRoots \/ \E R \in knownRoots : L \in ReachPlus(SimpleCallees, R)
    /\ Registered # {} => knownRoots # {}

\* a leader two edges away from the root, and a recorded cycle
C18_Witness ==
  /\ pc = "rooted"
  /\ \E p \in Registered : p \in ReachPlus(preSimple, p)
  /\ \E L \in Leaders, R \in knownRoots :
       /\ L \notin knownRoots
       /\ L \notin Succ(SimpleCallees, R)
       /\ L \in ReachPlus(SimpleCallees, R)

\* ---- C19 --------------------------------------------------------------------
\* C19: on well-formed input no assertion of buildSCCs fails, and the
\* visitation stack is empty after every top-level call of tarjan_rec.
C19_NoAssertionFails ==
  (AfterBuild /\ WellFormed) =>
    /\ failure = ""
    /\ pc \in {"built", "rooted"}
    /\ search.Stack = <<>>
    /\ \A i \in 1 .. Len(search.returns) : search.returns[i] = <<>>

\* two top-level searches, one of which closed a component of two or more
C19_Witness ==
  /\ Completed
  /\ WellFormed
  /\ Len(search.returns) >= 2
  /\ \E L \in Leaders : Cardinality(ClassOf(L)) >= 2

\* ---- C20 --------------------------------------------------------------------
\* C20: during ingestion every actual target of a site is a simple callee of
\* the site's enclosing caller; after buildSCCs every actual target of a
\* site other than the leader of its caller is a simple callee of that leader.
C20_ActualWithinSimple ==
  /\ pc = "ingest" =>
       \A CS \in DOMAIN ActualCallees :
         ActualCallees[CS] \subseteq Succ(SimpleCallees, getCaller(CS))
  /\ Completed =>
       \A CS \in DOMAIN ActualCallees :
         (ActualCallees[CS] \ {LeaderOf(getCaller(CS))})
           \subseteq Succ(SimpleCallees, LeaderOf(getCaller(CS)))

\* a site of a non-leader with one target inside and one outside its class
C20_Witness ==
  /\ Completed
  /\ \E CS \in DOMAIN ActualCallees :
       /\ LeaderOf(getCaller(CS)) # getCaller(CS)
       /\ LeaderOf(getCaller(CS)) \in ActualCallees[CS]
       /\ ActualCallees[CS] # {LeaderOf(getCaller(CS))}

====
